---- MODULE Spec2Model ----
(***************************************************************************)
(* Model of the Timeline component (src/src/components/Timeline.tsx) and   *)
(* its controls (src/unnamed/part_000, TimelineControls).                  *)
(*                                                                         *)
(* Instants are integers counting time units since an epoch chosen as      *)
(* Sunday 2023-12-03 00:00 local time; UnitsPerHour units make one hour,   *)
(* so an instant can lie between two hour boundaries.  Local time is a     *)
(* fixed-offset zone: a calendar day is always 24 hours.  Percentages are  *)
(* exact rationals [n, d], the number n / d.                               *)
(***************************************************************************)
EXTENDS Integers, Sequences, FiniteSets

VARIABLES events, timeRange, view, focusDate, effectPending,
          rendered, timeWindow, timeLabels, labelStyles, eventStyles

vars == <<events, timeRange, view, focusDate, effectPending,
          rendered, timeWindow, timeLabels, labelStyles, eventStyles>>

(* ------------------------------ bounds -------------------------------- *)

\* Longest event collection the store holds in the model.
MaxEvents == 2

\* Time units per hour (2: half hours).
UnitsPerHour == 2

(* --------------------------- time arithmetic -------------------------- *)

Hour == UnitsPerHour
Day == 24 * Hour

\* The instant units after hour:00 of the day-th day since the epoch.
At(day, hour, units) == (day * 24 + hour) * Hour + units

\* date-fns addHours: a fixed amount of elapsed time.
addHours(date, amount) == date + amount * Hour

\* A subDays that goes back one day too few.
subDaysOffByOne(date, amount) == date - (amount - 1) * Day

\* date-fns subDays: the same wall-clock time amount calendar days earlier.
subDays(date, amount) == date - amount * Day

\* date-fns addDays, as eachDayOfInterval uses it.
addDays(date, amount) == date + amount * Day

\* date-fns startOfDay: setHours(0, 0, 0, 0).
startOfDay(date) == date - (date % Day)

\* The start of the hour: setMinutes(0, 0, 0) in eachHourOfInterval.
startOfHour(date) == date - (date % Hour)

\* Date.prototype.getHours: the hour of the day, 0..23.
getHours(date) == (date \div Hour) % 24

\* Date.prototype.getDay: the day of the week, 0 = Sunday.
getDay(date) == (date \div Day) % 7

\* date-fns differenceInDays: the number of full days, truncated toward 0.
differenceInDays(dateLeft, dateRight) ==
  IF dateLeft >= dateRight
    THEN (dateLeft - dateRight) \div Day
    ELSE 0 - ((dateRight - dateLeft) \div Day)

\* date-fns eachHourOfInterval: from the start of start's hour, hour by
\* hour, while the current instant is not after end.
RECURSIVE HoursFrom(_, _)
HoursFrom(current, end) ==
  IF current <= end
    THEN <<current>> \o HoursFrom(addHours(current, 1), end)
    ELSE <<>>

eachHourOfInterval(start, end) == HoursFrom(startOfHour(start), end)

\* date-fns eachDayOfInterval: from the start of start's day, day by day,
\* while the current instant is not after end.
RECURSIVE DaysFrom(_, _)
DaysFrom(current, end) ==
  IF current <= end
    THEN <<current>> \o DaysFrom(addDays(current, 1), end)
    ELSE <<>>

eachDayOfInterval(start, end) == DaysFrom(startOfDay(start), end)

(* ------------------------- number arithmetic -------------------------- *)

\* The number n / d, kept as the pair with a divisor that is not negative.
\* A zero divisor gives what JavaScript gives: an infinity (n # 0) or NaN
\* (n = 0).
Rat(n, d) == IF d < 0 THEN [n |-> 0 - n, d |-> 0 - d] ELSE [n |-> n, d |-> d]

RLess(a, b) == a.n * b.d < b.n * a.d

RAdd(a, b) ==
  IF a.d = b.d THEN Rat(a.n + b.n, a.d)
  ELSE Rat(a.n * b.d + b.n * a.d, a.d * b.d)

\* Math.max and Math.min of two numbers.
MathMax(a, b) == IF RLess(a, b) THEN b ELSE a
MathMin(a, b) == IF RLess(b, a) THEN b ELSE a

(* ------------------------------- events ------------------------------- *)

\* The end instant of the latest event: events.reduce((latest, event) =>
\* event.endDate > latest.endDate ? event : latest).endDate
RECURSIVE reduceLatest(_, _, _)
reduceLatest(evs, i, latest) ==
  IF i > Len(evs)
    THEN latest
    ELSE reduceLatest(evs, i + 1,
           IF evs[i].endDate > latest.endDate THEN evs[i] ELSE latest)

\* The end of the last event of the collection instead of the latest one.
latestEventEndLast(evs) == evs[Len(evs)].endDate

latestEventEnd(evs) == reduceLatest(evs, 2, evs[1]).endDate

(* ------------------------------ rendering ----------------------------- *)

\* A getTimeWindow that takes a month to be 31 days.
getTimeWindowMonth31(fd, tr) ==
  LET end == fd
      start == CASE tr = "1day"   -> subDays(end, 1)
                 [] tr = "3days"  -> subDays(end, 3)
                 [] tr = "1week"  -> subDays(end, 7)
                 [] tr = "2weeks" -> subDays(end, 14)
                 [] tr = "1month" -> subDays(end, 31)
                 [] OTHER         -> subDays(end, 3)
  IN  [start |-> start, end |-> end]

\* getTimeWindow: the window ends at the focus instant and starts the
\* selector's number of days earlier.
getTimeWindow(fd, tr) ==
  LET end == fd
      start == CASE tr = "1day"   -> subDays(end, 1)
                 [] tr = "3days"  -> subDays(end, 3)
                 [] tr = "1week"  -> subDays(end, 7)
                 [] tr = "2weeks" -> subDays(end, 14)
                 [] tr = "1month" -> subDays(end, 30)
                 [] OTHER         -> subDays(end, 3)
  IN  [start |-> start, end |-> end]

\* The while loops with current < end as their condition.
RECURSIVE StepLabelsExclusive(_, _, _, _)
StepLabelsExclusive(current, start, end, step) ==
  IF current < end
    THEN <<[date |-> current, format |-> "HH:mm",
            showDate |-> (getHours(current) = 0 \/ current = start)]>>
         \o StepLabelsExclusive(addHours(current, step), start, end, step)
    ELSE <<>>

\* The while loops of the 6-hour and 12-hour tiers.
RECURSIVE StepLabels(_, _, _, _)
StepLabels(current, start, end, step) ==
  IF current <= end
    THEN <<[date |-> current, format |-> "HH:mm",
            showDate |-> (getHours(current) = 0 \/ current = start)]>>
         \o StepLabels(addHours(current, step), start, end, step)
    ELSE <<>>

\* getTimeLabels: the axis labels of the window, by its span in days.
getTimeLabels(fd, tr) ==
  LET w == getTimeWindow(fd, tr)
      start == w.start
      end == w.end
      daysDiff == differenceInDays(end, start)
      hours == eachHourOfInterval(start, end)
      days == eachDayOfInterval(start, end)
      sundays == SelectSeq(days, LAMBDA day : getDay(day) = 0)
  IN  IF daysDiff <= 1
        THEN [i \in DOMAIN hours |->
               [date |-> hours[i], format |-> "HH:mm",
                showDate |-> (getHours(hours[i]) = 0 \/ i = 1)]]
      ELSE IF daysDiff <= 3 THEN StepLabels(start, start, end, 6)
      ELSE IF daysDiff <= 7 THEN StepLabels(start, start, end, 12)
      ELSE IF daysDiff <= 14
        THEN [i \in DOMAIN days |->
               [date |-> days[i], format |-> "MMM d", showDate |-> TRUE]]
      ELSE [i \in DOMAIN sundays |->
               [date |-> sundays[i], format |-> "MMM d", showDate |-> TRUE]]

\* left: Math.max(0, Math.min(100, left))
styleLeft(left) == MathMax(Rat(0, 1), MathMin(Rat(100, 1), left))

\* A width with no minimum above 0, and one with a minimum of 1.
styleWidthNoMinimum(width) == MathMax(Rat(0, 1), MathMin(Rat(100, 1), width))
styleWidthMinimumOne(width) == MathMax(Rat(1, 1), MathMin(Rat(100, 1), width))

\* width: Math.max(0.5, Math.min(100, width))
styleWidth(width) == MathMax(Rat(1, 2), MathMin(Rat(100, 1), width))

\* A display that also hides an event starting exactly at the window end.
styleDisplayHideAtEdge(left, width) ==
  IF ~RLess(left, Rat(100, 1)) \/ RLess(RAdd(left, width), Rat(0, 1))
    THEN "none" ELSE "flex"

\* display: left > 100 || left + width < 0 ? 'none' : 'flex'
styleDisplay(left, width) ==
  IF RLess(Rat(100, 1), left) \/ RLess(RAdd(left, width), Rat(0, 1))
    THEN "none" ELSE "flex"

\* getEventStyle: the position, width, colour and visibility of an event
\* against the window of the current focus instant and range.
getEventStyle(event, fd, tr) ==
  LET w == getTimeWindow(fd, tr)
      totalDuration == w.end - w.start
      left == Rat((event.startDate - w.start) * 100, totalDuration)
      width == Rat((event.endDate - event.startDate) * 100, totalDuration)
      backgroundColor == CASE event.sentiment = "positive" -> "#22c55e"
                           [] event.sentiment = "negative" -> "#ef4444"
                           [] OTHER -> "#3b82f6"
  IN  [id |-> event.id,
       left |-> styleLeft(left),
       width |-> styleWidth(width),
       backgroundColor |-> backgroundColor,
       display |-> styleDisplay(left, width)]

\* getLabelStyle: the position of a label against the window.
getLabelStyle(date, fd, tr) ==
  LET w == getTimeWindow(fd, tr)
      totalDuration == w.end - w.start
  IN  [left |-> Rat((date - w.start) * 100, totalDuration)]

\* [...new Set(events.map((event) => event.lane))]: the distinct lanes in
\* order of first appearance.
RECURSIVE lanesFrom(_, _)
lanesFrom(evs, seen) ==
  IF evs = <<>> THEN seen
  ELSE lanesFrom(Tail(evs),
         IF \E i \in DOMAIN seen : seen[i] = Head(evs).lane
           THEN seen ELSE Append(seen, Head(evs).lane))

lanes(evs) == lanesFrom(evs, <<>>)

\* The event bars in document order: lane by lane, the events of the lane.
RECURSIVE laneStyles(_, _, _, _)
laneStyles(ls, evs, fd, tr) ==
  IF ls = <<>> THEN <<>>
  ELSE LET inLane == SelectSeq(evs, LAMBDA e : e.lane = Head(ls))
       IN  [i \in DOMAIN inLane |-> getEventStyle(inLane[i], fd, tr)]
           \o laneStyles(Tail(ls), evs, fd, tr)

\* An empty-state test that never holds.
emptyStateNever(evs) == Len(evs) < 0

\* The empty-state guard: events.length === 0
emptyState(evs) == Len(evs) = 0

\* One render of Timeline: what it returns and what it computed on the way.
\* An empty collection returns the placeholder before anything is computed;
\* otherwise the window and the labels are computed for every view, and the
\* label positions and the event bars for the timeline view only.
Timeline(evs, tr, v, fd) ==
  IF emptyState(evs)
    THEN [rendered |-> "placeholder", timeWindow |-> <<>>,
          timeLabels |-> <<>>, labelStyles |-> <<>>, eventStyles |-> <<>>]
    ELSE [rendered |-> v,
          timeWindow |-> <<getTimeWindow(fd, tr)>>,
          timeLabels |-> getTimeLabels(fd, tr),
          labelStyles |-> IF v = "timeline"
                            THEN LET ls == getTimeLabels(fd, tr)
                                 IN  [i \in DOMAIN ls |->
                                        getLabelStyle(ls[i].date, fd, tr)]
                            ELSE <<>>,
          eventStyles |-> IF v = "timeline"
                            THEN laneStyles(lanes(evs), evs, fd, tr)
                            ELSE <<>>]

\* The component re-renders with the given state: r is what the one render
\* computed.
Render(evs, tr, v, fd) ==
  \E r \in {Timeline(evs, tr, v, fd)} :
      /\ rendered' = r.rendered
      /\ timeWindow' = r.timeWindow
      /\ timeLabels' = r.timeLabels
      /\ labelStyles' = r.labelStyles
      /\ eventStyles' = r.eventStyles

(* ------------------------------- inputs ------------------------------- *)

TimeRanges == {"1day", "3days", "1week", "2weeks", "1month"}
Views == {"timeline", "calendar", "list"}

Event(id, s, e, lane, sentiment) ==
  [id |-> id, startDate |-> s, endDate |-> e, lane |-> lane,
   sentiment |-> sentiment]

\* The events the store may hold.  Day 29 is Monday 2024-01-01.
EventPool ==
  { Event(1, At(30, 0, 0), At(30, 12, 0), "A", "neutral"),
    Event(2, At(31, 0, 0), At(32, 0, 0), "B", "positive"),
    Event(3, At(32, 9, 1), At(32, 9, 1), "A", "negative"),
    Event(4, At(1, 0, 0), At(2, 3, 0), "C", "neutral") }

\* The collections of at most MaxEvents distinct events.
Collections ==
  UNION { { s \in [1..n -> EventPool] :
              \A i, j \in 1..n : i # j => s[i].id # s[j].id } :
          n \in 0..MaxEvents }

\* The instants new Date() may give when the component mounts empty.
NowInstants == { At(34, 15, 1) }

(* --------------------------- the component ---------------------------- *)

\* Mount: the state hooks take their initial values (the focus instant is
\* the latest event's end, or now when there is none), the first render
\* runs, and the effect on the events is scheduled.
Init ==
  /\ events \in Collections
  /\ timeRange = "3days"
  /\ view = "timeline"
  /\ focusDate \in (IF Len(events) > 0 THEN {latestEventEnd(events)}
                    ELSE NowInstants)
  /\ effectPending = TRUE
  /\ LET r == Timeline(events, timeRange, view, focusDate)
     IN  /\ rendered = r.rendered
         /\ timeWindow = r.timeWindow
         /\ timeLabels = r.timeLabels
         /\ labelStyles = r.labelStyles
         /\ eventStyles = r.eventStyles

\* The store replaces the event collection: the component re-renders with
\* the focus instant it has, and the effect on the events is scheduled.
SetEvents(newEvents) ==
  /\ ~effectPending
  /\ newEvents # events
  /\ events' = newEvents
  /\ effectPending' = TRUE
  /\ UNCHANGED <<timeRange, view, focusDate>>
  /\ Render(events', timeRange, view, focusDate)

\* The effect on the events runs after the render that scheduled it and
\* before any other event is handled: a non-empty collection sets the focus
\* instant to the latest event's end and the component re-renders.
RunEffect ==
  /\ effectPending
  /\ effectPending' = FALSE
  /\ focusDate' = IF Len(events) > 0 THEN latestEventEnd(events)
                  ELSE focusDate
  /\ UNCHANGED <<events, timeRange, view>>
  /\ Render(events, timeRange, view, focusDate')

\* The controls exist only in a render that did not return the placeholder.
ControlsRendered == rendered # "placeholder" /\ ~effectPending

\* The range select: onTimeRangeChange(e.target.value).
SelectTimeRange(range) ==
  /\ ControlsRendered
  /\ timeRange' = range
  /\ UNCHANGED <<events, view, focusDate, effectPending>>
  /\ Render(events, timeRange', view, focusDate)

\* The reset button: onTimeRangeChange('3days').
ResetTimeRange ==
  /\ ControlsRendered
  /\ timeRange' = "3days"
  /\ UNCHANGED <<events, view, focusDate, effectPending>>
  /\ Render(events, timeRange', view, focusDate)

\* A view button that also puts the range back to 3 days.
SelectViewResetsRange(mode) ==
  /\ ControlsRendered
  /\ view' = mode
  /\ timeRange' = "3days"
  /\ UNCHANGED <<events, focusDate, effectPending>>
  /\ Render(events, timeRange', view', focusDate)

\* A view button: onViewChange(mode).
SelectView(mode) ==
  /\ ControlsRendered
  /\ view' = mode
  /\ UNCHANGED <<events, timeRange, focusDate, effectPending>>
  /\ Render(events, timeRange, view', focusDate)

Next ==
  \/ \E newEvents \in Collections : SetEvents(newEvents)
  \/ RunEffect
  \/ \E range \in TimeRanges : SelectTimeRange(range)
  \/ ResetTimeRange
  \/ \E mode \in Views : SelectView(mode)

Spec == Init /\ [][Next]_vars

(* ------------------- the functions on their own inputs ---------------- *)

\* The range values handed to getTimeWindow: the five selectors and a value
\* outside them, which only the default branch of the switch takes.
RangeInputs == TimeRanges \cup {"unrecognized"}

FnFocusDates == { At(32, 0, 0), At(32, 9, 1) }

FnInstants ==
  { At(1, 12, 0), At(2, 0, 0), At(18, 0, 0), At(25, 0, 0), At(29, 0, 0),
    At(30, 0, 0), At(30, 12, 0), At(31, 0, 0), At(31, 0, 1), At(32, 0, 0),
    At(32, 0, 1), At(32, 9, 1), At(33, 0, 0), At(40, 0, 0) }

FnEvents ==
  { Event(1, s, e, "A", "neutral") :
      <<s, e>> \in { p \in FnInstants \X FnInstants : p[1] <= p[2] } }

\* One event, one focus instant and one range value; nothing computed yet.
FnInit ==
  /\ \E e \in FnEvents : events = <<e>>
  /\ timeRange \in RangeInputs
  /\ focusDate \in FnFocusDates
  /\ view = "timeline"
  /\ effectPending = FALSE
  /\ rendered = "timeline"
  /\ timeWindow = <<>>
  /\ timeLabels = <<>>
  /\ labelStyles = <<>>
  /\ eventStyles = <<>>

FnGetTimeWindow ==
  /\ timeWindow = <<>>
  /\ timeWindow' = <<getTimeWindow(focusDate, timeRange)>>
  /\ UNCHANGED <<events, timeRange, view, focusDate, effectPending,
                 rendered, timeLabels, labelStyles, eventStyles>>

FnGetTimeLabels ==
  /\ timeLabels = <<>>
  /\ timeLabels' = getTimeLabels(focusDate, timeRange)
  /\ UNCHANGED <<events, timeRange, view, focusDate, effectPending,
                 rendered, timeWindow, labelStyles, eventStyles>>

FnGetLabelStyle ==
  /\ timeLabels # <<>>
  /\ labelStyles = <<>>
  /\ labelStyles' = [i \in DOMAIN timeLabels |->
                       getLabelStyle(timeLabels[i].date, focusDate, timeRange)]
  /\ UNCHANGED <<events, timeRange, view, focusDate, effectPending,
                 rendered, timeWindow, timeLabels, eventStyles>>

FnGetEventStyle ==
  /\ eventStyles = <<>>
  /\ eventStyles' = <<getEventStyle(events[1], focusDate, timeRange)>>
  /\ UNCHANGED <<events, timeRange, view, focusDate, effectPending,
                 rendered, timeWindow, timeLabels, labelStyles>>

FnNext ==
  \/ FnGetTimeWindow
  \/ FnGetTimeLabels
  \/ FnGetLabelStyle
  \/ FnGetEventStyle

FnSpec == FnInit /\ [][FnNext]_vars

(* ------------------------------- claims ------------------------------- *)

\* The duration in days the specification gives each range selector; a
\* value outside the five takes 3 days.
DurationDays(r) ==
  CASE r = "1day" -> 1 [] r = "3days" -> 3 [] r = "1week" -> 7
    [] r = "2weeks" -> 14 [] r = "1month" -> 30 [] OTHER -> 3

\* The event of the collection an event bar was drawn for.
EventOf(style) ==
  CHOOSE e \in { events[i] : i \in DOMAIN events } : e.id = style.id

\* C1: the window computed by getTimeWindow ends at the focus instant and
\* starts duration(range) days before it, with 1, 3, 7, 14 and 30 days for
\* the five selectors and 3 days for any other value.
C1_WindowFromFocusAndRange ==
  timeWindow # <<>> =>
    /\ timeWindow[1].end = focusDate
    /\ timeWindow[1].start = focusDate - DurationDays(timeRange) * 24 * UnitsPerHour

C1_Witness ==
  /\ timeWindow # <<>>
  /\ timeRange \notin TimeRanges
  /\ timeWindow[1].start = focusDate - 3 * 24 * UnitsPerHour

\* C2: once the effect of a collection change has run, the focus instant,
\* and with it the end of the window, is the maximum end instant of the
\* current (non-empty) collection, whatever collection changes, range
\* selections and view selections came before.
MaxEndInstant(evs) ==
  CHOOSE m \in { evs[i].endDate : i \in DOMAIN evs } :
    \A i \in DOMAIN evs : evs[i].endDate <= m

C2_FocusIsLatestEnd ==
  (~effectPending /\ Len(events) > 0) =>
    /\ focusDate = MaxEndInstant(events)
    /\ timeWindow # <<>>
    /\ timeWindow[1].end = MaxEndInstant(events)

C2_Witness ==
  /\ ~effectPending
  /\ Len(events) = 2
  /\ events[2].endDate < events[1].endDate
  /\ timeRange = "1week"
  /\ view = "list"
  /\ focusDate = events[1].endDate

\* C3: an event bar's left% is (event.start - window.start) / (window.end -
\* window.start) * 100 clamped into [0, 100] and its width% is (event.end -
\* event.start) / (window.end - window.start) * 100 clamped into [0.5, 100];
\* a zero-duration event gets 0.5, and the event [Jan 2 00:00, Jan 2 12:00]
\* in the window [Jan 1 00:00, Jan 4 00:00] gets left% 100/3, width% 100/6.
IsClamped(x, num, den, lo2, hi) ==
  \* x is num / den clamped into [lo2 / 2, hi], for den > 0
  IF 2 * num <= lo2 * den THEN x.n * 2 = lo2 * x.d
  ELSE IF num >= hi * den THEN x.n = hi * x.d
  ELSE x.n * den = num * x.d

C3_LeftAndWidthClamped ==
  (timeWindow # <<>> /\ eventStyles # <<>>) =>
    \A i \in DOMAIN eventStyles :
      LET st == eventStyles[i]
          e == EventOf(st)
          w == timeWindow[1]
      IN  /\ w.end - w.start > 0
          /\ st.left.d > 0 /\ st.width.d > 0
          /\ IsClamped(st.left, (e.startDate - w.start) * 100,
                       w.end - w.start, 0, 100)
          /\ IsClamped(st.width, (e.endDate - e.startDate) * 100,
                       w.end - w.start, 1, 100)
          /\ (e.startDate = e.endDate => st.width.n * 2 = st.width.d)
          /\ (/\ w = [start |-> At(29, 0, 0), end |-> At(32, 0, 0)]
              /\ e.startDate = At(30, 0, 0)
              /\ e.endDate = At(30, 12, 0))
             => (st.left.n * 3 = 100 * st.left.d
                 /\ st.width.n * 6 = 100 * st.width.d)

C3_Witness ==
  /\ timeWindow = <<[start |-> At(29, 0, 0), end |-> At(32, 0, 0)]>>
  /\ eventStyles # <<>>
  /\ events[1].startDate = At(30, 0, 0)
  /\ events[1].endDate = At(30, 12, 0)
  /\ eventStyles[1].left.n * 3 = 100 * eventStyles[1].left.d
  /\ eventStyles[1].width.n * 6 = 100 * eventStyles[1].width.d

\* C4: an event with start <= end is hidden exactly when its interval lies
\* entirely outside the window: event.start > window.end or event.end <
\* window.start.
C4_HiddenIffOutside ==
  (timeWindow # <<>> /\ eventStyles # <<>>) =>
    \A i \in DOMAIN eventStyles :
      LET st == eventStyles[i]
          e == EventOf(st)
          w == timeWindow[1]
      IN  e.startDate <= e.endDate =>
            /\ st.display \in {"none", "flex"}
            /\ st.display = "none"
                 <=> (e.startDate > w.end \/ e.endDate < w.start)

C4_Witness ==
  /\ timeWindow # <<>>
  /\ eventStyles # <<>>
  /\ eventStyles[1].display = "none"
  /\ events[1].startDate > timeWindow[1].end

\* The events of the current collection that lie fully inside the window.
InsideWindow(e, w) ==
  w.start <= e.startDate /\ e.startDate <= e.endDate /\ e.endDate <= w.end

\* C5 as stated: for an event fully inside the window the rendered left%
\* plus the rendered width% does not exceed 100.
C5_Original ==
  (timeWindow # <<>> /\ eventStyles # <<>>) =>
    \A i \in DOMAIN eventStyles :
      LET st == eventStyles[i]
      IN  InsideWindow(EventOf(st), timeWindow[1]) =>
            ~RLess(Rat(100, 1), RAdd(st.left, st.width))

\* C5 as amended: for an event fully inside the window the rendered left%
\* plus the rendered width% does not exceed 100.5 (the 0.5 minimum width may
\* carry the bar past the right edge).
C5_Amended ==
  (timeWindow # <<>> /\ eventStyles # <<>>) =>
    \A i \in DOMAIN eventStyles :
      LET st == eventStyles[i]
      IN  InsideWindow(EventOf(st), timeWindow[1]) =>
            ~RLess(Rat(201, 2), RAdd(st.left, st.width))

C5_Witness ==
  /\ timeWindow # <<>>
  /\ \E i \in DOMAIN eventStyles :
       LET st == eventStyles[i]
       IN  /\ InsideWindow(EventOf(st), timeWindow[1])
           /\ RAdd(st.left, st.width).n * 2 = 201 * RAdd(st.left, st.width).d

\* The whole-day span of a window.
DaySpan(w) == (w.end - w.start) \div (24 * UnitsPerHour)

\* The label granularity the specification gives a day span, and the one it
\* gives each range selector.
ExpectedTier(D) ==
  IF D <= 1 THEN "hourly"
  ELSE IF D <= 3 THEN "6-hourly"
  ELSE IF D <= 7 THEN "12-hourly"
  ELSE IF D <= 14 THEN "daily"
  ELSE "weekly"

RangeTier(r) ==
  CASE r = "1day" -> "hourly" [] r = "3days" -> "6-hourly"
    [] r = "1week" -> "12-hourly" [] r = "2weeks" -> "daily"
    [] r = "1month" -> "weekly" [] OTHER -> "6-hourly"

\* labels are one every step units from the window start while not after
\* its end.
EveryFromStart(labels, w, step) ==
  /\ Len(labels) = (w.end - w.start) \div step + 1
  /\ \A i \in DOMAIN labels : labels[i].date = w.start + (i - 1) * step

\* labels are the consecutive multiples of unit from the one at or before
\* the window start to the last one not after the window end.
EveryBoundary(labels, w, unit) ==
  /\ Len(labels) >= 1
  /\ \A i \in DOMAIN labels : labels[i].date % unit = 0
  /\ \A i \in DOMAIN labels :
       i > 1 => labels[i].date = labels[i - 1].date + unit
  /\ labels[1].date <= w.start /\ w.start < labels[1].date + unit
  /\ labels[Len(labels)].date <= w.end
  /\ w.end < labels[Len(labels)].date + unit

LabelsMatchTier(tier, labels, w) ==
  LET hour == UnitsPerHour
      day == 24 * UnitsPerHour
      format == IF tier \in {"daily", "weekly"} THEN "MMM d" ELSE "HH:mm"
  IN  /\ \A i \in DOMAIN labels : labels[i].format = format
      /\ \A i, j \in DOMAIN labels :
           i < j => labels[i].date < labels[j].date
      /\ CASE tier = "hourly" -> EveryBoundary(labels, w, hour)
           [] tier = "6-hourly" -> EveryFromStart(labels, w, 6 * hour)
           [] tier = "12-hourly" -> EveryFromStart(labels, w, 12 * hour)
           [] tier = "daily" -> EveryBoundary(labels, w, day)
           [] tier = "weekly" ->
                { labels[i].date : i \in DOMAIN labels }
                  = { t \in (w.start - day + 1)..w.end : t % (7 * day) = 0 }

\* C6: the labels follow the tier of the window's whole-day span D (hourly
\* for D <= 1, every 6 hours from the window start for 1 < D <= 3, every 12
\* hours for 3 < D <= 7, one per calendar day for 7 < D <= 14, one per
\* Sunday for D > 14), so the ranges 1day, 3days, 1week, 2weeks and 1month
\* give hourly, 6-hourly, 12-hourly, daily and weekly labels; the format is
\* hour:minute for the first three tiers and month-day for the last two,
\* and the labels ascend by instant.
C6_LabelsFollowTier ==
  timeWindow # <<>> =>
    /\ ExpectedTier(DaySpan(timeWindow[1])) = RangeTier(timeRange)
    /\ LabelsMatchTier(ExpectedTier(DaySpan(timeWindow[1])), timeLabels,
                       timeWindow[1])

C6_Witness ==
  /\ timeWindow # <<>>
  /\ timeRange = "1month"
  /\ Len(timeLabels) >= 4
  /\ \A i \in DOMAIN timeLabels :
       timeLabels[i].format = "MMM d" /\ getDay(timeLabels[i].date) = 0

\* C7: in a window of day span <= 1 the labels are exactly the hour
\* boundaries t with window.start <= t <= window.end, so no label is
\* earlier than window.start or later than window.end, and none is placed
\* left of the axis.
C7_HourlyLabelsInsideWindow ==
  (timeWindow # <<>> /\ DaySpan(timeWindow[1]) <= 1) =>
    LET w == timeWindow[1]
    IN  /\ \A i \in DOMAIN timeLabels :
             w.start <= timeLabels[i].date /\ timeLabels[i].date <= w.end
        /\ { timeLabels[i].date : i \in DOMAIN timeLabels }
             = { t \in w.start..w.end : t % UnitsPerHour = 0 }
        /\ \A i \in DOMAIN labelStyles : labelStyles[i].left.n >= 0

\* C8: with an empty event collection a render shows the placeholder and
\* computes no window, labels or geometry, whatever the range and the view
\* are; and no step that ends with an empty collection changes the stored
\* focus instant, range selector or view mode.
C8_EmptyShowsPlaceholder ==
  /\ [](Len(events) = 0 =>
          /\ rendered = "placeholder"
          /\ timeWindow = <<>>
          /\ timeLabels = <<>>
          /\ labelStyles = <<>>
          /\ eventStyles = <<>>)
  /\ [][Len(events') = 0 =>
          /\ focusDate' = focusDate
          /\ timeRange' = timeRange
          /\ view' = view]_vars

C8_Witness ==
  /\ Len(events) = 0
  /\ ~effectPending
  /\ rendered = "placeholder"
  /\ timeRange = "1month"
  /\ view = "list"
  /\ focusDate \notin NowInstants

\* C9 as stated: from every state a selection of any of the three view
\* modes is possible in one step.
C9_Original ==
  ~effectPending => \A mode \in Views : ENABLED SelectView(mode)

\* C9 as amended: the view mode is always one of timeline, calendar, list
\* (initially timeline); from every state whose event collection is not
\* empty a selection of any of the three modes is possible in one step and
\* sets the mode to the selected one; and a step that changes the mode
\* leaves the range selector, the focus instant and the collection alone.
C9_Amended ==
  /\ view = "timeline"
  /\ [](view \in Views)
  /\ []((~effectPending /\ Len(events) > 0) =>
          \A mode \in Views : ENABLED (SelectView(mode) /\ view' = mode))
  /\ [][view' # view =>
          /\ timeRange' = timeRange
          /\ focusDate' = focusDate
          /\ events' = events]_vars

C9_Witness ==
  /\ view = "calendar"
  /\ rendered = "calendar"
  /\ timeRange = "2weeks"
  /\ Len(events) > 0

\* C10: whenever geometry is computed the window duration is strictly
\* positive, so getEventStyle and getLabelStyle never divide by zero.
C10_WindowDurationPositive ==
  timeWindow # <<>> =>
    /\ timeWindow[1].end - timeWindow[1].start > 0
    /\ \A i \in DOMAIN eventStyles :
         eventStyles[i].left.d > 0 /\ eventStyles[i].width.d > 0
    /\ \A i \in DOMAIN labelStyles : labelStyles[i].left.d > 0

C10_Witness ==
  /\ timeWindow # <<>>
  /\ timeRange = "1day"
  /\ eventStyles # <<>>
  /\ labelStyles # <<>>
  /\ timeWindow[1].end - timeWindow[1].start = 24 * UnitsPerHour

====
